---------------------------- MODULE Spec2Model ----------------------------
(***************************************************************************)
(* A state-machine model of the CHIP-8 virtual machine of this repository  *)
(* (class Chip8: chip8.h is the tail of src/src/main.cpp, chip8.cpp is     *)
(* src/unnamed/part_000) together with the calls its driver (main) makes.  *)
(***************************************************************************)
EXTENDS Integers, Sequences, FiniteSets, TLC

(***************************************************************************)
(* Program constants (chip8.h).                                            *)
(***************************************************************************)
MEMORY_SIZE == 4096
REGISTER_COUNT == 16
STACK_SIZE == 16
KEY_COUNT == 16
DISPLAY_WIDTH == 64
DISPLAY_HEIGHT == 32
FONTSET_SIZE == 80
ROM_START_ADDRESS == 512

\* Widths of the fixed-width integer members: uint8_t and uint16_t.
Byte == 256
Word == 65536

(***************************************************************************)
(* Bounds of the model.                                                    *)
(***************************************************************************)
\* emulateCycle calls allowed after a reset.
MaxCycles == 17
\* loadROM calls allowed after a reset.
MaxLoads == 2
\* Calls that index an array out of bounds, after a reset, up to which the
\* model follows the execution.
MaxFaults == 1

\* Values an out-of-bounds read of `memory` may produce (undefined
\* behaviour): a representative choice of bytes.
OobBytes == {0, 238}
\* Values an out-of-bounds read of `stack` may produce (undefined behaviour):
\* a representative choice of 16-bit words.
OobWords == {0, 65535}

\* static constexpr std::array<uint8_t, FONTSET_SIZE> fontset
fontset ==
  << 240, 144, 144, 144, 240,
      32,  96,  32,  32, 112,
     240,  16, 240, 128, 240,
     240,  16, 240,  16, 240,
     144, 144, 240,  16,  16,
     240, 128, 240,  16, 240,
     240, 128, 240, 144, 240,
     240,  16,  32,  64,  64,
     240, 144, 240, 144, 240,
     240, 144, 240,  16, 240,
     240, 144, 240, 144, 144,
     224, 144, 224, 144, 224,
     240, 128, 128, 128, 240,
     224, 144, 144, 144, 224,
     240, 128, 240, 128, 240,
     240, 128, 240, 128, 128 >>

(***************************************************************************)
(* The two large arrays, `memory` and `display`, are held as the map from  *)
(* the indices of their non-zero cells to the values there: Cell(arr, i)   *)
(* is arr[i] of the C++ array, for every index i of the array.             *)
(***************************************************************************)
Cell(arr, i) == IF i \in DOMAIN arr THEN arr[i] ELSE 0

\* arr.fill(0)
Filled0 == [i \in {} |-> 0]

VARIABLES
  memory,      \* std::array<uint8_t, MEMORY_SIZE>
  V,           \* std::array<uint8_t, REGISTER_COUNT>
  I,           \* uint16_t
  pc,          \* uint16_t
  display,     \* std::array<uint8_t, DISPLAY_WIDTH * DISPLAY_HEIGHT>
  drawFlag,    \* bool
  delayTimer,  \* uint8_t
  soundTimer,  \* uint8_t
  stack,       \* std::array<uint16_t, STACK_SIZE>
  sp,          \* uint8_t
  keys,        \* std::array<bool, KEY_COUNT>
  opcode,      \* uint16_t
  called,      \* the member function the driver called last
  arg,         \* what it passed: the file name for loadROM, <<key, pressed>>
               \* for setKey, <<x, y>> for getPixel ("" otherwise)
  ret,         \* what that call returned (TRUE for a void function)
  cerr,        \* what that call wrote to std::cerr ("" when nothing)
  callSite,    \* history: per stack slot, the address of the 2NNN that filled it
  run,         \* history: how the calls since the last reset went (see LoadROM)
  cycles,      \* emulateCycle calls since the last reset
  loads,       \* loadROM calls since the last reset
  faults,      \* calls since the last reset that indexed an array out of bounds
  ticks        \* passes since the last reset of a driver loop that only calls
               \* updateTimers (see TickTimers)

machine == <<memory, V, I, pc, display, drawFlag, delayTimer, soundTimer,
             stack, sp, keys, opcode>>
vars == <<memory, V, I, pc, display, drawFlag, delayTimer, soundTimer,
          stack, sp, keys, opcode, called, arg, ret, cerr,
          callSite, run, cycles, loads, faults, ticks>>

NoCall == -1

(***************************************************************************)
(* Chip8::initialize                                                       *)
(***************************************************************************)
\* Mutant: the font is copied before memory is cleared.
FontWiped == Filled0

\* memory.fill(0) followed by std::copy(fontset.begin(), fontset.end(),
\* memory.begin())
FontLoaded ==
  [a \in {b \in 0..(FONTSET_SIZE - 1) : fontset[b + 1] # 0} |-> fontset[a + 1]]

\* The values initialize() assigns to the members.
PowerOn(who) ==
  /\ pc' = ROM_START_ADDRESS
  /\ opcode' = 0
  /\ I' = 0
  /\ sp' = 0
  /\ display' = Filled0
  /\ drawFlag' = TRUE
  /\ stack' = [i \in 0..(STACK_SIZE - 1) |-> 0]
  /\ V' = [i \in 0..(REGISTER_COUNT - 1) |-> 0]
  /\ memory' = FontLoaded
  /\ delayTimer' = 0
  /\ soundTimer' = 0
  /\ keys' = [i \in 0..(KEY_COUNT - 1) |-> FALSE]
  /\ called' = who
  /\ arg' = ""
  /\ ret' = TRUE
  /\ cerr' = ""
  /\ callSite' = [i \in 0..(STACK_SIZE - 1) |-> NoCall]
  /\ run' = "reset"
  /\ cycles' = 0
  /\ loads' = 0
  /\ faults' = 0
  /\ ticks' = 0

\* Chip8::Chip8(): the constructor runs initialize().
Init ==
  /\ pc = ROM_START_ADDRESS
  /\ opcode = 0
  /\ I = 0
  /\ sp = 0
  /\ display = Filled0
  /\ drawFlag = TRUE
  /\ stack = [i \in 0..(STACK_SIZE - 1) |-> 0]
  /\ V = [i \in 0..(REGISTER_COUNT - 1) |-> 0]
  /\ memory = FontLoaded
  /\ delayTimer = 0
  /\ soundTimer = 0
  /\ keys = [i \in 0..(KEY_COUNT - 1) |-> FALSE]
  /\ called = "Chip8"
  /\ arg = ""
  /\ ret = TRUE
  /\ cerr = ""
  /\ callSite = [i \in 0..(STACK_SIZE - 1) |-> NoCall]
  /\ run = "reset"
  /\ cycles = 0
  /\ loads = 0
  /\ faults = 0
  /\ ticks = 0

Initialize == PowerOn("initialize")

(***************************************************************************)
(* The ROM files the driver may name.  A file either cannot be opened or   *)
(* holds a sequence of bytes.                                              *)
(***************************************************************************)
\* byte sequence `head`, padded with zero bytes to length n, then `tail`
Padded(head, n, tail) ==
  head \o [i \in 1..(n - Len(head)) |-> 0] \o tail

\* 3584 bytes, all that fits.  0x200: 1FFC (jump to 0xFFC); 0xFFC: 6001;
\* 0xFFE: 3001; zero elsewhere.
FullRom == Padded(<<31, 252>>, 3580, <<96, 1, 48, 1>>)
\* 3585 bytes, one more than fits.
OverRom == [i \in 1..3585 |-> 170]
\* 0x200: 2230 (call 0x230), then from 0x202:
\*   6005 700A A220 300F FFFF 400F 01E0 5121 FFFF 9121 8008 E000 F000 00E0 1FFF
\* and at 0x230: 00EE.
CallRetRom ==
  Padded(<< 34, 48,
            96, 5, 112, 10, 162, 32, 48, 15, 255, 255, 64, 15, 1, 224, 81, 33,
            255, 255, 145, 33, 128, 8, 224, 0, 240, 0, 0, 224, 31, 255 >>,
         48, <<0, 238>>)
\* 0x200: 2200 (call itself); 0x202: 00EE.
RecurseRom == <<34, 0, 0, 238>>

Files == {"missing.ch8", "over.ch8", "full.ch8", "callret.ch8", "recurse.ch8"}

\* file.is_open()
FileOpens(f) == f # "missing.ch8"

FileBytes(f) ==
  CASE f = "over.ch8" -> OverRom
    [] f = "full.ch8" -> FullRom
    [] f = "callret.ch8" -> CallRetRom
    [] f = "recurse.ch8" -> RecurseRom
    [] OTHER -> << >>

(***************************************************************************)
(* Chip8::loadROM                                                          *)
(***************************************************************************)
\* Mutant: the size check lets one byte too many through.
RomTooLargeOffByOne(size) == size > MEMORY_SIZE - ROM_START_ADDRESS + 1

\* size > (MEMORY_SIZE - ROM_START_ADDRESS)
RomTooLarge(size) == size > MEMORY_SIZE - ROM_START_ADDRESS

\* Mutant: the read starts one byte late.
ReadFileShifted(mem, bytes) ==
  LET written == {a \in ROM_START_ADDRESS..(MEMORY_SIZE - 1) :
                    a - ROM_START_ADDRESS < Len(bytes) - 1}
      byte(a) == IF a \in written THEN bytes[a - ROM_START_ADDRESS + 2]
                 ELSE Cell(mem, a)
  IN [a \in {b \in DOMAIN mem \cup written : byte(b) # 0} |-> byte(a)]

\* file.read(reinterpret_cast<char*>(&memory[ROM_START_ADDRESS]), size):
\* byte i of the file goes to memory[ROM_START_ADDRESS + i].
ReadFile(mem, bytes) ==
  LET written == {a \in ROM_START_ADDRESS..(MEMORY_SIZE - 1) :
                    a - ROM_START_ADDRESS < Len(bytes)}
      byte(a) == IF a \in written THEN bytes[a - ROM_START_ADDRESS + 1]
                 ELSE Cell(mem, a)
  IN [a \in {b \in DOMAIN mem \cup written : byte(b) # 0} |-> byte(a)]

\* The return value of loadROM(f).
LoadReturns(f) == FileOpens(f) /\ ~RomTooLarge(Len(FileBytes(f)))

\* What loadROM(f) writes to std::cerr.
LoadComplaint(f) ==
  IF ~FileOpens(f) THEN "Failed to open ROM"
  ELSE IF RomTooLarge(Len(FileBytes(f))) THEN "ROM too large"
  ELSE ""

\* Mutant: the file is read into memory before its size is checked, as much
\* of it as fits.
LoadedMemoryReadFirst(f) ==
  IF FileOpens(f)
  THEN ReadFile(memory, SubSeq(FileBytes(f), 1,
         IF RomTooLarge(Len(FileBytes(f)))
         THEN MEMORY_SIZE - ROM_START_ADDRESS ELSE Len(FileBytes(f))))
  ELSE memory

\* `memory` after loadROM(f): both early returns come before the read.
LoadedMemory(f) ==
  IF LoadReturns(f) THEN ReadFile(memory, FileBytes(f)) ELSE memory

\* History: "loaded" while the calls since the last reset are one successful
\* loadROM followed by emulateCycle calls (and calls that leave memory and
\* the program counter alone), "reset" before that load, "other" otherwise.
RunAfterLoad(f) ==
  IF ~LoadReturns(f) THEN run
  ELSE IF run = "reset" /\ cycles = 0 THEN "loaded" ELSE "other"

\* Mutant: a load also clears the registers and the timers.
LoadROMClearsRegisters(f) ==
  /\ loads < MaxLoads
  /\ memory' = LoadedMemory(f)
  /\ V' = [i \in 0..(REGISTER_COUNT - 1) |-> 0]
  /\ delayTimer' = 0
  /\ soundTimer' = 0
  /\ called' = "loadROM"
  /\ arg' = f
  /\ run' = RunAfterLoad(f)
  /\ ret' = LoadReturns(f)
  /\ cerr' = LoadComplaint(f)
  /\ loads' = loads + 1
  /\ UNCHANGED <<I, pc, display, drawFlag, stack, sp, keys, opcode,
                 callSite, cycles, faults, ticks>>

\* Mutant: a successful load rewinds the program counter to the entry point.
LoadROMRewinds(f) ==
  /\ loads < MaxLoads
  /\ memory' = LoadedMemory(f)
  /\ pc' = IF LoadReturns(f) THEN ROM_START_ADDRESS ELSE pc
  /\ called' = "loadROM"
  /\ arg' = f
  /\ run' = RunAfterLoad(f)
  /\ ret' = LoadReturns(f)
  /\ cerr' = LoadComplaint(f)
  /\ loads' = loads + 1
  /\ UNCHANGED <<V, I, display, drawFlag, delayTimer, soundTimer, stack, sp,
                 keys, opcode, callSite, cycles, faults, ticks>>

LoadROM(f) ==
  /\ loads < MaxLoads
  /\ memory' = LoadedMemory(f)
  /\ called' = "loadROM"
  /\ arg' = f
  /\ run' = RunAfterLoad(f)
  /\ ret' = LoadReturns(f)
  /\ cerr' = LoadComplaint(f)
  /\ loads' = loads + 1
  /\ UNCHANGED <<V, I, pc, display, drawFlag, delayTimer, soundTimer, stack,
                 sp, keys, opcode, callSite, cycles, faults, ticks>>

(***************************************************************************)
(* Chip8::emulateCycle and Chip8::executeOpcode                            *)
(***************************************************************************)
\* The values memory[a] may yield: the byte stored there, or, past the end
\* of the array, whatever the out-of-bounds read produces.
FetchByte(a) == IF a < MEMORY_SIZE THEN {Cell(memory, a)} ELSE OobBytes

\* Whether memory[pc] and memory[pc + 1] are both inside the array.
FetchInBounds == pc + 1 < MEMORY_SIZE

\* opcode = (memory[pc] << 8) | memory[pc + 1]
Fetchable == {hi * Byte + lo : hi \in FetchByte(pc), lo \in FetchByte(pc + 1)}

\* The operand fields executeOpcode extracts.
FieldX(op) == (op \div 256) % 16
FieldY(op) == (op \div 16) % 16
FieldN(op) == op % 16
FieldNN(op) == op % 256
FieldNNN(op) == op % 4096
\* opcode & 0xF000, as the nibble
Family(op) == op \div 4096

\* pc += n on a uint16_t
Advance(n) == (pc + n) % Word

\* Mutant: the return address is taken as stored, without moving past the call.
ReturnPcAsStored(slot) == slot

\* pc = stack[sp]; pc += 2
ReturnPc(slot) == (slot + 2) % Word

\* Mutant: 00E0 sets the redraw flag without clearing the framebuffer.
ClearScreenKeepsPixels(oob) ==
  /\ drawFlag' = TRUE
  /\ pc' = Advance(2)
  /\ cerr' = ""
  /\ faults' = faults + (IF oob THEN 1 ELSE 0)
  /\ UNCHANGED <<V, I, display, stack, sp, keys, callSite>>

\* 00E0
ClearScreen(oob) ==
  /\ display' = Filled0
  /\ drawFlag' = TRUE
  /\ pc' = Advance(2)
  /\ cerr' = ""
  /\ faults' = faults + (IF oob THEN 1 ELSE 0)
  /\ UNCHANGED <<V, I, stack, sp, keys, callSite>>

\* 00EE: --sp on a uint8_t, then stack[sp] is read, in bounds or not.
Return(oob) ==
  LET nsp == (sp + Byte - 1) % Byte IN
  /\ sp' = nsp
  /\ \E slot \in (IF nsp < STACK_SIZE THEN {stack[nsp]} ELSE OobWords) :
       pc' = ReturnPc(slot)
  /\ cerr' = ""
  /\ faults' = faults + (IF oob \/ nsp >= STACK_SIZE THEN 1 ELSE 0)
  /\ UNCHANGED <<V, I, display, drawFlag, stack, keys, callSite>>

\* Mutant: 2NNN stores the address of the instruction after the call.
CallStoresNext(oob, nnn) ==
  IF sp < STACK_SIZE
  THEN /\ stack' = [stack EXCEPT ![sp] = (pc + 2) % Word]
       /\ sp' = (sp + 1) % Byte
       /\ pc' = nnn
       /\ callSite' = [callSite EXCEPT ![sp] = IF oob THEN NoCall ELSE pc]
       /\ cerr' = ""
       /\ faults' = faults + (IF oob THEN 1 ELSE 0)
       /\ UNCHANGED <<V, I, display, drawFlag, keys>>
  ELSE /\ sp' = (sp + 1) % Byte
       /\ pc' = nnn
       /\ cerr' = ""
       /\ faults' = faults + 1
       /\ UNCHANGED <<V, I, display, drawFlag, stack, keys, callSite>>

\* 2NNN: stack[sp] = pc; ++sp; pc = NNN.  With sp >= STACK_SIZE the store
\* lands past the end of `stack` (undefined behaviour): either it changes
\* nothing this model holds, or, at index STACK_SIZE, it overwrites the
\* members declared right after `stack` (sp with the low byte of pc,
\* keys[0] with the high byte) before sp is incremented.
Call(oob, nnn) ==
  IF sp < STACK_SIZE
  THEN /\ stack' = [stack EXCEPT ![sp] = pc]
       /\ sp' = (sp + 1) % Byte
       /\ pc' = nnn
       /\ callSite' = [callSite EXCEPT ![sp] = IF oob THEN NoCall ELSE pc]
       /\ cerr' = ""
       /\ faults' = faults + (IF oob THEN 1 ELSE 0)
       /\ UNCHANGED <<V, I, display, drawFlag, keys>>
  ELSE /\ \E clobbered \in BOOLEAN :
            IF clobbered /\ sp = STACK_SIZE
            THEN /\ sp' = ((pc % Byte) + 1) % Byte
                 /\ keys' = [keys EXCEPT ![0] = (pc \div Byte) # 0]
            ELSE /\ sp' = (sp + 1) % Byte
                 /\ keys' = keys
       /\ pc' = nnn
       /\ cerr' = ""
       /\ faults' = faults + 1
       /\ UNCHANGED <<V, I, display, drawFlag, stack, callSite>>

\* Mutant: the skips skip when the condition fails.
SkipInverted(oob, cond) ==
  /\ pc' = Advance(IF cond THEN 2 ELSE 4)
  /\ cerr' = ""
  /\ faults' = faults + (IF oob THEN 1 ELSE 0)
  /\ UNCHANGED <<V, I, display, drawFlag, stack, sp, keys, callSite>>

\* 3XNN, 4XNN, 5XY0, 9XY0: pc += cond ? 4 : 2
Skip(oob, cond) ==
  /\ pc' = Advance(IF cond THEN 4 ELSE 2)
  /\ cerr' = ""
  /\ faults' = faults + (IF oob THEN 1 ELSE 0)
  /\ UNCHANGED <<V, I, display, drawFlag, stack, sp, keys, callSite>>

\* Mutant: the register write also clears the flag register V[F].
SetRegisterClearsFlag(oob, x, value) ==
  /\ V' = [[V EXCEPT ![x] = value] EXCEPT ![15] = 0]
  /\ pc' = Advance(2)
  /\ cerr' = ""
  /\ faults' = faults + (IF oob THEN 1 ELSE 0)
  /\ UNCHANGED <<I, display, drawFlag, stack, sp, keys, callSite>>

\* 6XNN (V[X] = NN) and 7XNN (V[X] += NN on a uint8_t)
SetRegister(oob, x, value) ==
  /\ V' = [V EXCEPT ![x] = value]
  /\ pc' = Advance(2)
  /\ cerr' = ""
  /\ faults' = faults + (IF oob THEN 1 ELSE 0)
  /\ UNCHANGED <<I, display, drawFlag, stack, sp, keys, callSite>>

\* ANNN
SetIndex(oob, nnn) ==
  /\ I' = nnn
  /\ pc' = Advance(2)
  /\ cerr' = ""
  /\ faults' = faults + (IF oob THEN 1 ELSE 0)
  /\ UNCHANGED <<V, display, drawFlag, stack, sp, keys, callSite>>

\* The branches that only write a message to std::cerr and do pc += 2.
Complain(oob, message) ==
  /\ pc' = Advance(2)
  /\ cerr' = message
  /\ faults' = faults + (IF oob THEN 1 ELSE 0)
  /\ UNCHANGED <<V, I, display, drawFlag, stack, sp, keys, callSite>>

\* switch (opcode & 0xF000), and for family 0 switch (NN)
ExecuteOpcode(op, oob) ==
  LET X == FieldX(op)
      Y == FieldY(op)
      NN == FieldNN(op)
      NNN == FieldNNN(op)
  IN CASE Family(op) = 0 /\ NN = 224 -> ClearScreen(oob)
       [] Family(op) = 0 /\ NN = 238 -> Return(oob)
       [] Family(op) = 0 /\ NN \notin {224, 238} ->
            Complain(oob, "[ERROR] Unknown opcode")
       [] Family(op) = 1 ->
            /\ pc' = NNN
            /\ cerr' = ""
            /\ faults' = faults + (IF oob THEN 1 ELSE 0)
            /\ UNCHANGED <<V, I, display, drawFlag, stack, sp, keys, callSite>>
       [] Family(op) = 2 -> Call(oob, NNN)
       [] Family(op) = 3 -> Skip(oob, V[X] = NN)
       [] Family(op) = 4 -> Skip(oob, V[X] # NN)
       [] Family(op) = 5 -> Skip(oob, V[X] = V[Y])
       [] Family(op) = 6 -> SetRegister(oob, X, NN)
       [] Family(op) = 7 -> SetRegister(oob, X, (V[X] + NN) % Byte)
       [] Family(op) = 8 -> Complain(oob, "[TODO] Implement 0x8XYN opcodes")
       [] Family(op) = 9 -> Skip(oob, V[X] # V[Y])
       [] Family(op) = 10 -> SetIndex(oob, NNN)
       [] OTHER -> Complain(oob, "[TODO] Opcode not yet implemented")

EmulateCycle ==
  /\ cycles < MaxCycles
  /\ faults < MaxFaults
  /\ \E op \in Fetchable :
       /\ opcode' = op
       /\ ExecuteOpcode(op, ~FetchInBounds)
  /\ called' = "emulateCycle"
  /\ arg' = ""
  /\ ret' = TRUE
  /\ cycles' = cycles + 1
  /\ UNCHANGED <<memory, delayTimer, soundTimer, run, loads, ticks>>

(***************************************************************************)
(* Chip8::updateTimers, Chip8::setKey, Chip8::clearDrawFlag                *)
(***************************************************************************)
\* Mutant: the timer is decremented without the test for 0.
CountDownWraps(timer) == (timer + Byte - 1) % Byte

\* if (timer > 0) --timer
CountDown(timer) == IF timer > 0 THEN timer - 1 ELSE timer

\* One call of updateTimers; the loop that makes the call says what becomes
\* of its pass counter `ticks`.
UpdateTimers ==
  /\ delayTimer' = CountDown(delayTimer)
  /\ soundTimer' = CountDown(soundTimer)
  /\ called' = "updateTimers"
  /\ arg' = ""
  /\ ret' = TRUE
  /\ cerr' = ""
  /\ UNCHANGED <<memory, V, I, pc, display, drawFlag, stack, sp, keys, opcode,
                 callSite, run, cycles, loads, faults>>

\* The uint8_t key values the model passes to setKey.
KeyInputs == {15, 16}

\* Mutant: the range test stops one key short.
SetKeyOffByOne(key, pressed) ==
  /\ keys' = IF key < KEY_COUNT - 1 THEN [keys EXCEPT ![key] = pressed]
             ELSE keys
  /\ called' = "setKey"
  /\ arg' = <<key, pressed>>
  /\ ret' = TRUE
  /\ cerr' = ""
  /\ UNCHANGED <<memory, V, I, pc, display, drawFlag, delayTimer, soundTimer,
                 stack, sp, opcode, callSite, run, cycles, loads, faults,
                 ticks>>

SetKey(key, pressed) ==
  /\ keys' = IF key < KEY_COUNT THEN [keys EXCEPT ![key] = pressed] ELSE keys
  /\ called' = "setKey"
  /\ arg' = <<key, pressed>>
  /\ ret' = TRUE
  /\ cerr' = ""
  /\ UNCHANGED <<memory, V, I, pc, display, drawFlag, delayTimer, soundTimer,
                 stack, sp, opcode, callSite, run, cycles, loads, faults,
                 ticks>>

\* The uint8_t coordinates the model passes to getPixel.
Columns == {0, 5, 63, 64, 255}
Rows == {0, 3, 31, 32, 255}

\* Mutant: the range test of getPixel lets x = 64 and y = 32 through.
PixelIndicesOffByOne(x, y) ==
  IF x > DISPLAY_WIDTH \/ y > DISPLAY_HEIGHT THEN {}
  ELSE {y * DISPLAY_WIDTH + x}

\* The indices at which getPixel(x, y) reads `display`: none when
\* x >= DISPLAY_WIDTH || y >= DISPLAY_HEIGHT, else y * DISPLAY_WIDTH + x.
PixelIndices(x, y) ==
  IF x >= DISPLAY_WIDTH \/ y >= DISPLAY_HEIGHT THEN {}
  ELSE {y * DISPLAY_WIDTH + x}

\* bool Chip8::getPixel(uint8_t x, uint8_t y) const
GetPixel(x, y) ==
  /\ called' = "getPixel"
  /\ arg' = <<x, y>>
  /\ ret' = (\E i \in PixelIndices(x, y) : Cell(display, i) # 0)
  /\ cerr' = ""
  /\ UNCHANGED <<memory, V, I, pc, display, drawFlag, delayTimer, soundTimer,
                 stack, sp, keys, opcode, callSite, run, cycles, loads,
                 faults, ticks>>

\* bool shouldDraw() const { return drawFlag; }
ShouldDraw == drawFlag

\* Mutant: clearDrawFlag leaves the flag as it is.
ClearDrawFlagKeepsFlag ==
  /\ called' = "clearDrawFlag"
  /\ arg' = ""
  /\ ret' = TRUE
  /\ cerr' = ""
  /\ UNCHANGED <<memory, V, I, pc, display, drawFlag, delayTimer, soundTimer,
                 stack, sp, keys, opcode, callSite, run, cycles, loads, faults,
                 ticks>>

\* void clearDrawFlag() { drawFlag = false; }
ClearDrawFlag ==
  /\ drawFlag' = FALSE
  /\ called' = "clearDrawFlag"
  /\ arg' = ""
  /\ ret' = TRUE
  /\ cerr' = ""
  /\ UNCHANGED <<memory, V, I, pc, display, delayTimer, soundTimer, stack, sp,
                 keys, opcode, callSite, run, cycles, loads, faults, ticks>>

Next ==
  \/ Initialize
  \/ \E f \in Files : LoadROM(f)
  \/ EmulateCycle
  \/ UpdateTimers /\ UNCHANGED ticks
  \/ \E key \in KeyInputs, pressed \in BOOLEAN : SetKey(key, pressed)
  \/ ClearDrawFlag

Spec == Init /\ [][Next]_vars

(***************************************************************************)
(* The machine running one short program: the state is the one a reset and *)
(* a successful loadROM of a file holding the program leave, and the       *)
(* driver then steps it, with key events and redraws in between.           *)
(***************************************************************************)
\* The instruction word with the nibbles a, b, c, d.
Op(a, b, c, d) == a * 4096 + b * 256 + c * 16 + d
\* The instruction word with the nibbles a, b and the low byte nn.
OpNN(a, b, nn) == a * 4096 + b * 256 + nn

\* The bytes of a file holding the instruction words `words`, high byte
\* first.
ProgramBytes(words) ==
  [i \in 1..(2 * Len(words)) |->
     IF i % 2 = 1 THEN words[(i + 1) \div 2] \div Byte
     ELSE words[i \div 2] % Byte]

\* The byte values the programs put into registers.
Samples == {0, 5, 10, 128, 255}

\* 6Xaa 7Xbb, from reset; and the same after 6E07 6F01.
AddPrograms ==
  {<<OpNN(6, x, a), OpNN(7, x, b)>> : x \in {0, 15}, a \in Samples, b \in Samples}
  \cup {<<OpNN(6, 14, 7), OpNN(6, 15, 1), OpNN(6, 0, a), OpNN(7, 0, b)>> :
          a \in Samples, b \in Samples}
\* 60aa 61bb 801n, n one of 4, 5, 7
ArithmeticPrograms ==
  {<<OpNN(6, 0, a), OpNN(6, 1, b), Op(8, 0, 1, n)>> :
     a \in Samples, b \in Samples, n \in {4, 5, 7}}
\* A000 D015 D015: the font sprite of "0", drawn twice at (V[0], V[1]) = (0, 0)
DrawPrograms == {<<OpNN(10, 0, 0), Op(13, 0, 1, 5), Op(13, 0, 1, 5)>>}
\* 60aa 61bb A300 F155 6000 6100 F165
StorePrograms ==
  {<<OpNN(6, 0, a), OpNN(6, 1, b), OpNN(10, 3, 0), OpNN(15, 1, 85),
     OpNN(6, 0, 0), OpNN(6, 1, 0), OpNN(15, 1, 101)>> :
     a \in Samples, b \in Samples}
\* F00A
WaitPrograms == {<<OpNN(15, 0, 10)>>}

\* The skip of family w (3, 4, 5 or 9) on the registers X = r[1], Y = r[2]:
\* 3Xbb, 4Xbb, 5XY0 or 9XY0.
SkipWord(w, r, b) ==
  IF w \in {3, 4} THEN OpNN(w, r[1], b) ELSE Op(w, r[1], r[2], 0)

\* 6Xaa 6Ybb followed by one of 3Xbb, 4Xbb, 5XY0, 9XY0, for (X, Y) one of
\* (0, 1), (15, 14)
SkipPrograms ==
  {<<OpNN(6, r[1], a), OpNN(6, r[2], b), SkipWord(w, r, b)>> :
     r \in {<<0, 1>>, <<15, 14>>}, a \in Samples, b \in Samples,
     w \in {3, 4, 5, 9}}

Programs ==
  AddPrograms \cup ArithmeticPrograms \cup DrawPrograms \cup StorePrograms
  \cup WaitPrograms \cup SkipPrograms

InitProgram ==
  /\ pc = ROM_START_ADDRESS
  /\ opcode = 0
  /\ I = 0
  /\ sp = 0
  /\ display = Filled0
  /\ drawFlag = TRUE
  /\ stack = [i \in 0..(STACK_SIZE - 1) |-> 0]
  /\ V = [i \in 0..(REGISTER_COUNT - 1) |-> 0]
  /\ \E words \in Programs : memory = ReadFile(FontLoaded, ProgramBytes(words))
  /\ delayTimer = 0
  /\ soundTimer = 0
  /\ keys = [i \in 0..(KEY_COUNT - 1) |-> FALSE]
  /\ called = "loadROM"
  /\ arg = ""
  /\ ret = TRUE
  /\ cerr = ""
  /\ callSite = [i \in 0..(STACK_SIZE - 1) |-> NoCall]
  /\ run = "loaded"
  /\ cycles = 0
  /\ loads = 1
  /\ faults = 0
  /\ ticks = 0

NextProgram ==
  \/ EmulateCycle
  \/ \E key \in KeyInputs, pressed \in BOOLEAN : SetKey(key, pressed)
  \/ ClearDrawFlag

SpecProgram == InitProgram /\ [][NextProgram]_vars

(***************************************************************************)
(* The machine with pixels on, showing a program that starts with 00E0.    *)
(* No instruction this code implements turns a pixel on, so the            *)
(* framebuffer a draw would have left is drawn from Screens at the start.  *)
(***************************************************************************)
\* Pixel (5, 3) alone; the four corners (one cell holding 255); every pixel.
Screens ==
  { [i \in {3 * DISPLAY_WIDTH + 5} |-> 1],
    [i \in {0, DISPLAY_WIDTH - 1, (DISPLAY_HEIGHT - 1) * DISPLAY_WIDTH,
             DISPLAY_HEIGHT * DISPLAY_WIDTH - 1} |->
       IF i = 0 THEN 255 ELSE 1],
    [i \in 0..(DISPLAY_WIDTH * DISPLAY_HEIGHT - 1) |-> 1] }

InitDisplay ==
  /\ pc = ROM_START_ADDRESS
  /\ opcode = 0
  /\ I = 0
  /\ sp = 0
  /\ display \in Screens
  /\ drawFlag = TRUE
  /\ stack = [i \in 0..(STACK_SIZE - 1) |-> 0]
  /\ V = [i \in 0..(REGISTER_COUNT - 1) |-> 0]
  /\ memory = ReadFile(FontLoaded, <<0, 224>>)
  /\ delayTimer = 0
  /\ soundTimer = 0
  /\ keys = [i \in 0..(KEY_COUNT - 1) |-> FALSE]
  /\ called = ""
  /\ arg = ""
  /\ ret = TRUE
  /\ cerr = ""
  /\ callSite = [i \in 0..(STACK_SIZE - 1) |-> NoCall]
  /\ run = "other"
  /\ cycles = 0
  /\ loads = 1
  /\ faults = 0
  /\ ticks = 0

NextDisplay ==
  \/ EmulateCycle
  \/ \E x \in Columns, y \in Rows : GetPixel(x, y)
  \/ ClearDrawFlag

SpecDisplay == InitDisplay /\ [][NextDisplay]_vars

(***************************************************************************)
(* The machine with its timers running, in a driver loop that only calls   *)
(* updateTimers.  No instruction this code implements writes the timers,   *)
(* so the values an FX15 and an FX18 would have left are set at the start. *)
(***************************************************************************)
\* The delay timer at the start.
TimerStart == 30
\* The passes of the loop.
MaxTicks == 60
\* The sound timer at the start.
SoundStarts == {0, 1, 45, 255}

InitTimers ==
  /\ pc = ROM_START_ADDRESS
  /\ opcode = 0
  /\ I = 0
  /\ sp = 0
  /\ display = Filled0
  /\ drawFlag = TRUE
  /\ stack = [i \in 0..(STACK_SIZE - 1) |-> 0]
  /\ V = [i \in 0..(REGISTER_COUNT - 1) |-> 0]
  /\ memory = FontLoaded
  /\ delayTimer = TimerStart
  /\ soundTimer \in SoundStarts
  /\ keys = [i \in 0..(KEY_COUNT - 1) |-> FALSE]
  /\ called = ""
  /\ arg = ""
  /\ ret = TRUE
  /\ cerr = ""
  /\ callSite = [i \in 0..(STACK_SIZE - 1) |-> NoCall]
  /\ run = "other"
  /\ cycles = 0
  /\ loads = 0
  /\ faults = 0
  /\ ticks = 0

\* One pass of the loop: chip8.updateTimers().
TickTimers ==
  /\ ticks < MaxTicks
  /\ UpdateTimers
  /\ ticks' = ticks + 1

NextTimers == TickTimers

SpecTimers == InitTimers /\ [][NextTimers]_vars

(***************************************************************************)
(* Properties.                                                             *)
(***************************************************************************)
MemoryCells == 0..(MEMORY_SIZE - 1)
Pixels == 0..(DISPLAY_WIDTH * DISPLAY_HEIGHT - 1)

\* C1: after reset (initialize(), also run by the constructor), in whatever
\* state it was called, memory[0x000..0x04F] is the built-in font and every
\* other byte is 0, all V registers, I, the stack pointer, all stack slots
\* and both timers are 0, all keys are released, all pixels are off, PC is
\* 0x200 and the redraw flag is true.
C1_ResetState ==
  called \in {"Chip8", "initialize"} =>
    /\ \A a \in MemoryCells :
         Cell(memory, a) = IF a < 80 THEN fontset[a + 1] ELSE 0
    /\ DOMAIN memory \subseteq MemoryCells
    /\ \A i \in 0..15 : V[i] = 0 /\ stack[i] = 0 /\ keys[i] = FALSE
    /\ I = 0
    /\ sp = 0
    /\ delayTimer = 0
    /\ soundTimer = 0
    /\ \A i \in Pixels : Cell(display, i) = 0
    /\ DOMAIN display \subseteq Pixels
    /\ pc = 512
    /\ drawFlag = TRUE

\* C1 witness: initialize() has been called.
C1_Witness == called = "initialize" /\ Cell(memory, 79) = 128 /\ pc = 512

\* The instruction words of the opcode table of the specification.
KnownPattern(op) ==
  \/ op \in {224, 238}
  \/ Family(op) \in {1, 2, 3, 4, 6, 7, 10, 11, 12, 13}
  \/ Family(op) \in {5, 9} /\ FieldN(op) = 0
  \/ Family(op) = 8 /\ FieldN(op) \in {0, 1, 2, 3, 4, 5, 6, 7, 14}
  \/ Family(op) = 14 /\ FieldNN(op) \in {158, 161}
  \/ Family(op) = 15 /\ FieldNN(op) \in {7, 10, 21, 24, 30, 41, 51, 85, 101}

\* C2 (as claimed): a step whose instruction word matches no pattern of the
\* opcode table reports a decode error, advances PC by exactly 2 and changes
\* nothing else of the machine.
C2_UnknownWordOnlyAdvances ==
  [][(called' = "emulateCycle" /\ FetchInBounds /\ ~KnownPattern(opcode')) =>
       /\ cerr' # ""
       /\ pc' = pc + 2
       /\ UNCHANGED <<memory, V, I, stack, sp, delayTimer, soundTimer, keys,
                      display, drawFlag>>]_vars

\* An address a program may be at: even and within [0x200, 0xFFE].
InWorkArea(a) == a % 2 = 0 /\ a >= 512 /\ a <= 4094

\* The instruction words of a program: byte pairs at even offsets.
ProgramWords(bytes) ==
  {bytes[2 * k - 1] * 256 + bytes[2 * k] : k \in 1..(Len(bytes) \div 2)}

\* The files whose program holds no jump or call to an odd or out-of-range
\* address.
TameFiles ==
  {f \in Files :
     /\ LoadReturns(f)
     /\ \A w \in ProgramWords(FileBytes(f)) :
          Family(w) \in {1, 2} => InWorkArea(FieldNNN(w))}

\* Memory after reset and a load of f.
ImageOf == [f \in TameFiles |-> ReadFile(FontLoaded, FileBytes(f))]

\* C3 (as claimed): after reset, a load of a program without a jump or call
\* to an odd or out-of-range address, and any number of steps, PC is even
\* and within [0x200, 0xFFE] after each step.
C3_PcStaysInWorkArea ==
  (/\ called = "emulateCycle"
   /\ run = "loaded"
   /\ \E f \in TameFiles : memory = ImageOf[f])
  => InWorkArea(pc)

\* C4 (as claimed): a 2NNN executed with 16 entries on the stack, and a 00EE
\* executed with none, are each reported as an error, and PC still changes.
C4_StackErrorsReported ==
  [][(/\ called' = "emulateCycle"
      /\ FetchInBounds
      /\ \/ Family(opcode') = 2 /\ sp = 16
         \/ opcode' = 238 /\ sp = 0)
     => cerr' # "" /\ pc' # pc]_vars

\* C5: a 00EE executed with the stack at the depth a 2NNN at address A left
\* it (the 2NNN having been executed with fewer than 16 entries) sets PC to
\* A + 2 and the stack pointer to its value before that call.
C5_CallReturnRoundTrip ==
  [][(/\ called' = "emulateCycle"
      /\ opcode' = 238
      /\ sp \in 1..16
      /\ callSite[sp - 1] # NoCall)
     => pc' = callSite[sp - 1] + 2 /\ sp' = sp - 1]_vars

\* C5 witness: the 00EE at 0x230 has returned to 0x202, after the 2230 at
\* 0x200.
C5_Witness ==
  /\ called = "emulateCycle"
  /\ opcode = 238
  /\ callSite[0] = 512
  /\ pc = 514
  /\ sp = 0
  /\ faults = 0

\* C6: loadROM of a file that opens succeeds exactly when the file is at
\* most 3584 bytes long.
C6_LoadFitsUpTo3584 ==
  (called = "loadROM" /\ FileOpens(arg)) =>
    (ret <=> Len(FileBytes(arg)) <= 3584)

\* C6 witness: the file of 3585 bytes has been rejected, after the file of
\* 3584 bytes was accepted (its last byte is in memory[0xFFF]).
C6_Witness ==
  /\ called = "loadROM"
  /\ arg = "over.ch8"
  /\ Len(FileBytes(arg)) = 3585
  /\ ~ret
  /\ Len(FullRom) = 3584
  /\ Cell(memory, 4095) = FullRom[3584]
  /\ Cell(memory, 4094) = FullRom[3583]

\* C7: after a successful load of n bytes, memory[0x200 + i] is byte i of
\* the file for 0 <= i < n, and every other byte of memory is as before.
C7_LoadCopiesProgram ==
  [][(called' = "loadROM" /\ ret') =>
       LET bytes == FileBytes(arg')
           n == Len(bytes)
       IN /\ \A i \in 0..(n - 1) : Cell(memory', 512 + i) = bytes[i + 1]
          /\ \A a \in (DOMAIN memory \cup DOMAIN memory') \ (512..(511 + n)) :
               Cell(memory', a) = Cell(memory, a)
          /\ DOMAIN memory' \subseteq MemoryCells]_vars

\* C7 witness: recurse.ch8 (4 bytes) has been loaded over callret.ch8, whose
\* bytes from 0x204 on are still there.
C7_Witness ==
  /\ called = "loadROM"
  /\ arg = "recurse.ch8"
  /\ ret
  /\ Cell(memory, 512) = 34 /\ Cell(memory, 513) = 0
  /\ Cell(memory, 514) = 0 /\ Cell(memory, 515) = 238
  /\ Cell(memory, 516) = 112
  /\ Cell(memory, 561) = 238

\* C8: a load that fails leaves memory and the rest of the machine as they
\* were.
C8_FailedLoadWritesNothing ==
  [][(called' = "loadROM" /\ ~ret') => UNCHANGED machine]_vars

\* C8 witness: the file that does not open has been refused, as the second
\* load since the reset, with a program in memory.
C8_Witness ==
  /\ called = "loadROM"
  /\ ~ret
  /\ arg = "missing.ch8"
  /\ loads = 2
  /\ Cell(memory, 512) = 34

\* C9: a load, successful or not, leaves PC, the V registers, I, the stack,
\* the stack pointer, both timers, the keys, the framebuffer and the redraw
\* flag as they were.
C9_LoadKeepsRegisters ==
  [][called' = "loadROM" =>
       UNCHANGED <<pc, V, I, stack, sp, delayTimer, soundTimer, keys, display,
                   drawFlag>>]_vars

\* C9 witness: a load has succeeded after steps that moved PC, set V[0] and
\* I, and pushed a return address, with a key down and the redraw flag
\* cleared.
C9_Witness ==
  /\ called = "loadROM"
  /\ ret
  /\ cycles > 0
  /\ V[0] = 15
  /\ I = 544
  /\ keys[15]
  /\ ~drawFlag

\* C10 (as claimed): after every successful load PC is the entry point 0x200.
C10_LoadRewindsPc ==
  (called = "loadROM" /\ ret) => pc = 512

\* C10 (amended): a successful load leaves PC where it was; PC is 0x200
\* after it when no step has run since the reset.
C10_LoadKeepsPc ==
  [][(called' = "loadROM" /\ ret') =>
       /\ pc' = pc
       /\ (cycles = 0 => pc' = 512)]_vars

\* C10 witness: a load has succeeded with PC at 0x230, where the call at
\* 0x200 left it.
C10_Witness ==
  /\ called = "loadROM"
  /\ ret
  /\ pc = 560
  /\ sp = 1

\* Memory after reset and a load of the 4-byte program 60 05 70 0A.
AddFiveAndTen == ReadFile(FontLoaded, <<96, 5, 112, 10>>)

\* C11: every step that executes 6XNN sets V[X] to NN, and every step that
\* executes 7XNN sets V[X] to (V[X] + NN) mod 256; both advance PC by 2 and
\* leave every other V register (V[F] too, unless X is F) and I as they were.
\* The program 60 05 70 0A, run for two steps from reset, ends with V[0] = 15
\* and PC = 0x204.
C11_RegisterWrites ==
  /\ [][(called' = "emulateCycle" /\ FetchInBounds /\ Family(opcode') \in {6, 7})
         => LET X == FieldX(opcode')
                NN == FieldNN(opcode')
            IN /\ V'[X] = IF Family(opcode') = 6 THEN NN ELSE (V[X] + NN) % 256
               /\ \A i \in (0..15) \ {X} : V'[i] = V[i]
               /\ I' = I
               /\ pc' = pc + 2]_vars
  /\ []((run = "loaded" /\ cycles = 2 /\ memory = AddFiveAndTen)
         => (V[0] = 15 /\ pc = 516))

\* C11 witness: 70FF has run after 6E07 6F01 60FF: V[0] is 255 + 255 mod 256,
\* V[E] and V[F] are what the program set them to.
C11_Witness ==
  /\ called = "emulateCycle"
  /\ opcode = OpNN(7, 0, 255)
  /\ cycles = 4
  /\ V[0] = 254
  /\ V[14] = 7
  /\ V[15] = 1
  /\ pc = 520

\* C12 (as claimed): every step that executes 8XY4 leaves V[X] =
\* (V[X] + V[Y]) mod 256 (X other than F) and V[F] = 1 exactly when the sum
\* exceeds 255, else 0, and advances PC by 2.
C12_AddSetsCarry ==
  [][(/\ called' = "emulateCycle"
      /\ FetchInBounds
      /\ Family(opcode') = 8
      /\ FieldN(opcode') = 4)
     => LET X == FieldX(opcode')
            sum == V[X] + V[FieldY(opcode')]
        IN /\ X # 15 => V'[X] = sum % 256
           /\ V'[15] = IF sum > 255 THEN 1 ELSE 0
           /\ pc' = pc + 2]_vars

\* C13 (as claimed): every step that executes 8XY5 leaves V[X] =
\* (V[X] - V[Y]) mod 256 (X other than F) and V[F] = 1 exactly when
\* V[X] >= V[Y] before it, else 0; every step that executes 8XY7 leaves
\* V[X] = (V[Y] - V[X]) mod 256 and V[F] = 1 exactly when V[Y] >= V[X].
C13_SubtractSetsNoBorrow ==
  [][(/\ called' = "emulateCycle"
      /\ FetchInBounds
      /\ Family(opcode') = 8
      /\ FieldN(opcode') \in {5, 7})
     => LET X == FieldX(opcode')
            from == IF FieldN(opcode') = 5 THEN V[X] ELSE V[FieldY(opcode')]
            take == IF FieldN(opcode') = 5 THEN V[FieldY(opcode')] ELSE V[X]
        IN /\ X # 15 => V'[X] = (from - take + 256) % 256
           /\ V'[15] = IF from >= take THEN 1 ELSE 0]_vars

\* Bit `col` (0 the leftmost) of the sprite byte `row` at memory[I + row].
SpriteBit(row, col) ==
  (Cell(memory, I + row) \div (2 ^ (7 - col))) % 2

\* The framebuffer cell a sprite pixel lands on, with wraparound.
SpriteCell(x, y, row, col) ==
  ((V[y] + row) % DISPLAY_HEIGHT) * DISPLAY_WIDTH
  + ((V[x] + col) % DISPLAY_WIDTH)

\* C14 (as claimed): every step that executes DXYN XORs the N sprite bytes
\* at memory[I..I+N-1] onto the framebuffer at (V[X]+col, V[Y]+row), modulo
\* 64 and 32, leaves every other pixel as it was, sets V[F] to 1 exactly
\* when some pixel goes from on to off, and sets the redraw flag.  (That two
\* such draws in a row restore the framebuffer follows from this.)
C14_DrawXorsSprite ==
  [][(called' = "emulateCycle" /\ FetchInBounds /\ Family(opcode') = 13)
     => LET X == FieldX(opcode')
            Y == FieldY(opcode')
            rows == 0..(FieldN(opcode') - 1)
            hit == {SpriteCell(X, Y, row, col) : row \in rows, col \in 0..7}
        IN /\ \A row \in rows, col \in 0..7 :
                (Cell(display', SpriteCell(X, Y, row, col)) # 0)
                  <=> ((Cell(display, SpriteCell(X, Y, row, col)) # 0)
                         # (SpriteBit(row, col) = 1))
           /\ \A cell \in Pixels \ hit :
                Cell(display', cell) = Cell(display, cell)
           /\ V'[15] = IF \E row \in rows, col \in 0..7 :
                              /\ SpriteBit(row, col) = 1
                              /\ Cell(display, SpriteCell(X, Y, row, col)) # 0
                       THEN 1 ELSE 0
           /\ drawFlag']_vars

\* Memory after reset and a load of the program
\* 60aa 61bb A300 F155 6000 6100 F165.
StoreImage(a, b) ==
  ReadFile(FontLoaded,
           <<96, a, 97, b, 163, 0, 241, 85, 96, 0, 97, 0, 241, 101>>)

\* C15 (as claimed): every step that executes FX55 copies V[0..X] to
\* memory[I..I+X], every step that executes FX65 copies memory[I..I+X] to
\* V[0..X], and the program 60aa 61bb A300 F155 6000 6100 F165, run for
\* seven steps from reset, ends with V[0] = aa and V[1] = bb.
C15_StoreLoadRoundTrip ==
  /\ [][(/\ called' = "emulateCycle"
          /\ FetchInBounds
          /\ Family(opcode') = 15
          /\ FieldNN(opcode') \in {85, 101})
         => \A i \in 0..FieldX(opcode') :
              IF FieldNN(opcode') = 85
              THEN Cell(memory', I + i) = V[i]
              ELSE V'[i] = Cell(memory, I + i)]_vars
  /\ [](\A a \in Samples, b \in Samples :
          (run = "loaded" /\ cycles = 7 /\ memory = StoreImage(a, b))
            => (V[0] = a /\ V[1] = b))

\* C16 (as claimed): a step that executes FX0A while no key is pressed
\* leaves PC and V[X] as they were; one that executes it while a key is
\* pressed and advances PC sets V[X] to a pressed key.
C16_WaitForKeyBlocks ==
  [][(/\ called' = "emulateCycle"
      /\ FetchInBounds
      /\ Family(opcode') = 15
      /\ FieldNN(opcode') = 10)
     => LET X == FieldX(opcode')
        IN IF \A k \in 0..15 : ~keys[k]
           THEN pc' = pc /\ V'[X] = V[X]
           ELSE pc' # pc => \E k \in 0..15 : keys[k] /\ V'[X] = k]_vars

\* C17: every updateTimers call decrements the delay timer by 1 if it is
\* greater than 0 and the sound timer by 1 if it is greater than 0, each
\* whatever the other is, takes neither below 0 and changes nothing else;
\* from delay timer = TimerStart (30), every one of MaxTicks (60) calls in a
\* row leaves it in 0..TimerStart, and the last leaves it at 0.
C17_TimersCountDownToZero ==
  /\ [][called' = "updateTimers" =>
           /\ delayTimer' = IF delayTimer > 0 THEN delayTimer - 1 ELSE 0
           /\ soundTimer' = IF soundTimer > 0 THEN soundTimer - 1 ELSE 0
           /\ UNCHANGED <<memory, V, I, pc, display, drawFlag, stack, sp,
                          keys, opcode>>]_vars
  /\ [](/\ delayTimer \in 0..TimerStart
         /\ soundTimer \in 0..255
         /\ ticks = MaxTicks => delayTimer = 0)

\* C17 witness: the 60th call in a row: the delay timer, at 0 since the
\* 30th, has stayed there while the sound timer went from 255 to 195.
C17_Witness ==
  /\ called = "updateTimers"
  /\ ticks = 60
  /\ delayTimer = 0
  /\ soundTimer = 195

\* C18: after a step executes 00E0, getPixel(x, y) is false for every x in
\* 0..63 and y in 0..31, the redraw flag is true, PC has advanced by 2, and
\* memory, the registers, the stack, the timers and the keys are as before.
C18_ClearScreenClears ==
  [][(called' = "emulateCycle" /\ FetchInBounds /\ opcode' = 224) =>
       /\ \A x \in 0..63, y \in 0..31 :
            \A i \in PixelIndices(x, y) : Cell(display', i) = 0
       /\ drawFlag'
       /\ pc' = pc + 2
       /\ UNCHANGED <<memory, V, I, stack, sp, delayTimer, soundTimer,
                      keys>>]_vars

\* C18 witness: getPixel(63, 31) has returned false after the 00E0, on a
\* framebuffer that had pixels on before it and with the redraw flag set
\* again.
C18_Witness ==
  /\ called = "getPixel"
  /\ arg = <<63, 31>>
  /\ ~ret
  /\ opcode = 224
  /\ cycles = 1
  /\ pc = 514
  /\ drawFlag

\* C19: setKey(key, pressed) with key in 0..15 sets that key's state to
\* pressed and leaves the other 15 keys and the rest of the machine as they
\* were; with key in 16..255 it changes nothing.
C19_SetKeySetsOneKey ==
  [][called' = "setKey" =>
       LET key == arg'[1]
           pressed == arg'[2]
       IN /\ key \in 0..15 =>
               /\ keys'[key] = pressed
               /\ \A k \in (0..15) \ {key} : keys'[k] = keys[k]
          /\ key \notin 0..15 => keys' = keys
          /\ UNCHANGED <<memory, V, I, pc, display, drawFlag, delayTimer,
                         soundTimer, stack, sp, opcode>>]_vars

\* C19 witness: setKey(15, false) has released key F, after steps of a
\* loaded program.
C19_Witness ==
  /\ called = "setKey"
  /\ arg = <<15, FALSE>>
  /\ \A k \in 0..15 : ~keys[k]
  /\ cycles > 0
  /\ V[0] = 15

\* C20: getPixel(x, y) returns the state of framebuffer cell y*64 + x when
\* x is in 0..63 and y is in 0..31 and false for every other (x, y), reads
\* no cell outside the framebuffer, and changes nothing.
C20_GetPixelInRangeOrOff ==
  [][called' = "getPixel" =>
       LET x == arg'[1]
           y == arg'[2]
       IN /\ ret' = IF x \in 0..63 /\ y \in 0..31
                    THEN Cell(display, y * 64 + x) # 0
                    ELSE FALSE
          /\ PixelIndices(x, y) \subseteq Pixels
          /\ UNCHANGED machine]_vars

\* C20 witness: getPixel(0, 0) has returned true on the cell that holds 255.
C20_Witness ==
  /\ called = "getPixel"
  /\ arg = <<0, 0>>
  /\ ret
  /\ Cell(display, 0) = 255
  /\ Cell(display, 1) = 0

\* C21: shouldDraw returns the current flag value, and after clearDrawFlag
\* (the second half of a consume) it returns false; from then on it returns
\* false until a reset, a step that takes the clear-screen branch, or a step
\* that executes a sprite draw: a change is delivered at most once.
C21_RedrawDeliveredOnce ==
  /\ [](ShouldDraw <=> drawFlag)
  /\ [][/\ called' = "clearDrawFlag" => ~ShouldDraw'
        /\ (~ShouldDraw /\ ShouldDraw') =>
             \/ called' = "initialize"
             \/ /\ called' = "emulateCycle"
                /\ \/ Family(opcode') = 0 /\ FieldNN(opcode') = 224
                   \/ Family(opcode') = 13]_vars

\* C21 witness: clearDrawFlag has cleared the flag that the 00E0 at 0x21C,
\* the 14th step of the program, had set.
C21_Witness ==
  /\ called = "clearDrawFlag"
  /\ ~ShouldDraw
  /\ opcode = 224
  /\ pc = 542
  /\ cycles = 14

\* C22 (as claimed): after every step the stack pointer is within 0..16,
\* and the stack slot a 00EE reads (sp - 1) or a 2NNN writes (sp) has an
\* index within 0..15.
C22_StackStaysInBounds ==
  [][(called' = "emulateCycle" /\ FetchInBounds) =>
       /\ sp' \in 0..16
       /\ (Family(opcode') = 0 /\ FieldNN(opcode') = 238) => sp - 1 \in 0..15
       /\ Family(opcode') = 2 => sp \in 0..15]_vars

\* C23 (as claimed): a 2NNN executed at address A with stack pointer s < 16
\* stores A + 2 in stack slot s, sets the stack pointer to s + 1 and PC to
\* NNN, and changes nothing else.
C23_CallStoresNextAddress ==
  [][(/\ called' = "emulateCycle"
      /\ FetchInBounds
      /\ Family(opcode') = 2
      /\ sp < 16)
     => /\ stack' = [stack EXCEPT ![sp] = pc + 2]
        /\ sp' = sp + 1
        /\ pc' = FieldNNN(opcode')
        /\ UNCHANGED <<memory, V, I, display, drawFlag, delayTimer,
                       soundTimer, keys>>]_vars

\* C23 (amended): a 2NNN executed at address A with stack pointer s < 16
\* stores A, the address of the 2NNN itself, in stack slot s, sets the stack
\* pointer to s + 1 and PC to NNN, and changes nothing else.
C23_CallStoresCallAddress ==
  [][(/\ called' = "emulateCycle"
      /\ FetchInBounds
      /\ Family(opcode') = 2
      /\ sp < 16)
     => /\ stack' = [stack EXCEPT ![sp] = pc]
        /\ sp' = sp + 1
        /\ pc' = FieldNNN(opcode')
        /\ UNCHANGED <<memory, V, I, display, drawFlag, delayTimer,
                       soundTimer, keys>>]_vars

\* C23 witness: the 2200 at 0x200 has called itself a second time: slots 0
\* and 1 both hold 0x200.
C23_Witness ==
  /\ called = "emulateCycle"
  /\ opcode = 8704
  /\ sp = 2
  /\ stack[0] = 512
  /\ stack[1] = 512
  /\ stack[2] = 0
  /\ pc = 512

\* C26 (as claimed): both addresses a step reads, PC and PC + 1, lie within
\* 0..4095, and the instruction word it executes is
\* memory[PC] * 256 + memory[PC + 1].
C26_FetchStaysInMemory ==
  [][called' = "emulateCycle" =>
       /\ pc \in 0..4095
       /\ pc + 1 \in 0..4095
       /\ opcode' = Cell(memory, pc) * 256 + Cell(memory, pc + 1)]_vars

\* C24: a step that executes 3XNN adds 4 to PC when V[X] = NN and 2
\* otherwise; 4XNN adds 4 when V[X] # NN; 5XY0 adds 4 when V[X] = V[Y];
\* 9XY0 adds 4 when V[X] # V[Y]; each changes nothing but PC.
C24_SkipsChangeOnlyPc ==
  [][(/\ called' = "emulateCycle"
      /\ FetchInBounds
      /\ \/ Family(opcode') \in {3, 4}
         \/ Family(opcode') \in {5, 9} /\ FieldN(opcode') = 0)
     => LET X == FieldX(opcode')
            Y == FieldY(opcode')
            NN == FieldNN(opcode')
            taken == CASE Family(opcode') = 3 -> V[X] = NN
                       [] Family(opcode') = 4 -> V[X] # NN
                       [] Family(opcode') = 5 -> V[X] = V[Y]
                       [] OTHER -> V[X] # V[Y]
        IN /\ pc' = pc + (IF taken THEN 4 ELSE 2)
           /\ UNCHANGED <<memory, V, I, stack, sp, delayTimer, soundTimer,
                          keys, display, drawFlag>>]_vars

\* C24 witness: 9FE0 at 0x204 has skipped, with V[F] = 255 and V[E] = 0.
C24_Witness ==
  /\ called = "emulateCycle"
  /\ opcode = Op(9, 15, 14, 0)
  /\ V[15] = 255
  /\ V[14] = 0
  /\ pc = 520
  /\ cycles = 3

\* C25 (as claimed): the redraw flag is true after every reset, every step
\* that executes 00E0 and every step that executes DXYN, and it goes from
\* true to false only in a clearDrawFlag call.
C25_RedrawFlagFollowsFramebuffer ==
  [][/\ (\/ called' = "initialize"
         \/ /\ called' = "emulateCycle"
            /\ FetchInBounds
            /\ opcode' = 224 \/ Family(opcode') = 13)
        => drawFlag'
     /\ (drawFlag /\ ~drawFlag') => called' = "clearDrawFlag"]_vars

=============================================================================
